---- MODULE Spec2Model ----
(***************************************************************************)
(* Model of the two ORCA6 batch tools:                                     *)
(*   tool 1  orca6-batch-create.py        (chunk, materialize every chunk) *)
(*   tool 2  orca6-batch-prune-create.py  (chunk, select, materialize)     *)
(* The state is the filesystem under the output root, the arguments of the *)
(* current invocation, the locals of main() and its position, the error    *)
(* stream and the exit code.                                               *)
(***************************************************************************)
EXTENDS Integers, Sequences, FiniteSets, TLC

\* ------------------------------------------------------------------ bounds
MaxLines == 3      \* lines of a geometry-list file (main specification)
MaxRuns == 2       \* invocations in one behaviour
MaxPre == 1        \* numbered sub-folders that exist before the first run
MaxLen == 4        \* lines handed to the chunker (SpecChunk)
MaxTotal == 5      \* chunk count handed to the selector (SpecSelect)

NL == "\n"
None == <<>>                       \* argparse default=None for -prune
Some(p) == <<p>>

Min(a, b) == IF a < b THEN a ELSE b
Max(a, b) == IF a > b THEN a ELSE b

\* ------------------------------------------------------- python built-ins
\* range(lo, hi, step) as a sequence; a negative step from lo <= hi is empty
range3(lo, hi, step) ==
    IF step > 0 /\ hi > lo
    THEN [k \in 1..((hi - lo + step - 1) \div step) |-> lo + (k - 1) * step]
    ELSE <<>>

\* range(hi)
range1(hi) == range3(0, hi, 1)

\* s[i:j] for 0 <= i, clamped to len(s) as python slices are
Slice(s, i, j) == SubSeq(s, i + 1, Min(j, Len(s)))

\* sep.join(parts) for sequences of characters
RECURSIVE join(_, _)
join(sep, parts) ==
    IF parts = <<>> THEN <<>>
    ELSE IF Len(parts) = 1 THEN parts[1]
    ELSE parts[1] \o sep \o join(sep, Tail(parts))

\* str.splitlines(): split at every newline, no empty last line
RECURSIVE splitlines_acc(_, _, _)
splitlines_acc(s, cur, acc) ==
    IF s = <<>> THEN (IF cur = <<>> THEN acc ELSE Append(acc, cur))
    ELSE IF Head(s) = NL THEN splitlines_acc(Tail(s), <<>>, Append(acc, cur))
    ELSE splitlines_acc(Tail(s), Append(cur, Head(s)), acc)

splitlines(raw) == splitlines_acc(raw, <<>>, <<>>)

\* sorted(set(xs)) for a sequence of integers
RECURSIVE sorted(_)
sorted(S) ==
    IF S = {} THEN <<>>
    ELSE LET m == CHOOSE x \in S : \A y \in S : x <= y
         IN <<m>> \o sorted(S \ {m})

SeqToSet(s) == {s[k] : k \in 1..Len(s)}

sorted_set(xs) == sorted(SeqToSet(xs))

\* ----------------------------------------------------------------- chunker
\* tool 1: ZeroDivisionError for n = 0
chunk_lines_create_raises(lines, n) == n = 0

\* the chunker without the cut to whole chunks: range(0, len(lines), n)
chunk_lines_keeps_tail(lines, n) ==
    IF n <= 0 THEN <<>>
    ELSE LET r == range3(0, Len(lines), n)
         IN [k \in 1..Len(r) |-> Slice(lines, r[k], r[k] + n)]

\* tool 1: [lines[i:i+n] for i in range(0, (len(lines) // n) * n, n)]
\* for n < 0 python's floor division gives (len // n) * n >= 0 and the
\* negative step makes the range empty
chunk_lines_create(lines, n) ==
    IF n <= 0 THEN <<>>
    ELSE LET r == range3(0, (Len(lines) \div n) * n, n)
         IN [k \in 1..Len(r) |-> Slice(lines, r[k], r[k] + n)]

\* tool 2: the same with a guard for n <= 0
chunk_lines_prune(lines, n) ==
    IF n <= 0 THEN <<>>
    ELSE LET usable == (Len(lines) \div n) * n
             r == range3(0, usable, n)
         IN [k \in 1..Len(r) |-> Slice(lines, r[k], r[k] + n)]

\* ---------------------------------------------------------------- selector
\* raise ValueError("-prune must be a positive integer.")
select_indices_raises(total, first_count, prune_den) ==
    total > 0 /\ prune_den # None /\ prune_den[1] <= 0

\* while j < remaining: selected.append(base + j); j += prune_den
RECURSIVE stride(_, _, _, _, _)
stride(selected, base, j, remaining, P) ==
    IF j < remaining
    THEN stride(Append(selected, base + j), base, j + P, remaining, P)
    ELSE selected

\* the selector with the stride started one step late (j = prune_den)
select_indices_late_stride(total, first_count, prune_den) ==
    IF total <= 0 THEN <<>>
    ELSE LET first == Max(0, Min(first_count, total))
             selected == range1(first)
         IN IF prune_den # None /\ prune_den[1] > 0
            THEN sorted_set(stride(selected, first, prune_den[1],
                                   total - first, prune_den[1]))
            ELSE sorted_set(selected)

select_indices(total, first_count, prune_den) ==
    IF total <= 0 THEN <<>>
    ELSE LET first == Max(0, Min(first_count, total))
             selected == range1(first)
         IN IF prune_den # None /\ prune_den[1] > 0
            THEN sorted_set(stride(selected, first, 0, total - first, prune_den[1]))
            ELSE sorted_set(selected)

\* -------------------------------------------------------------- filesystem
Artifacts == {"geometry.xyz", "orca6.inp", "job.slurm", "cleanup.sh"}
Names == Artifacts \cup {"old.out"}

NoData == [x \in Names |-> <<>>]
AbsentDir == [kind |-> "absent", names |-> {}, data |-> NoData, exec |-> {}]
EmptyDir == [kind |-> "dir", names |-> {}, data |-> NoData, exec |-> {}]
FileNode == [kind |-> "file", names |-> {}, data |-> NoData, exec |-> {}]
StaleDir == [kind |-> "dir", names |-> {"old.out"},
             data |-> [NoData EXCEPT !["old.out"] = <<"old">>], exec |-> {}]

\* the most chunks a geometry list of the model can hold
MaxDirs == Max(MaxLines, 1)
Ordinals == 1..MaxDirs

PriorDirs == {AbsentDir, EmptyDir, StaleDir, FileNode}
NoSubdirs == [k \in Ordinals |-> AbsentDir]

\* the filesystems a first run can find: the output root missing, a regular
\* file, or a directory with at most MaxPre numbered entries in it
PriorFS ==
    {[root |-> r, sub |-> NoSubdirs] : r \in {"absent", "file"}}
    \cup {[root |-> "dir", sub |-> s] :
            s \in {t \in [Ordinals -> PriorDirs] :
                     Cardinality({k \in Ordinals : t[k] # AbsentDir}) <= MaxPre}}

\* Path.write_text, then os.chmod(path, 0o755) when make_executable
write_file(d, name, content, make_executable) ==
    [d EXCEPT !.names = @ \cup {name},
              !.data[name] = content,
              !.exec = IF make_executable THEN @ \cup {name} ELSE @]

\* Path.mkdir(parents=True, exist_ok=True) on a path that is no regular file
mkdir(d) == IF d.kind = "absent" THEN EmptyDir ELSE d

\* any(path.iterdir())
non_empty(d) == d.kind = "dir" /\ d.names # {}

\* tool 1's ensure_dir raises RuntimeError
ensure_dir_raises(d, force) ==
    \/ d.kind = "file"
    \/ non_empty(d) /\ ~force

\* tool 2's check never finding a conflict
prune_dir_no_conflict(d) == FALSE

\* tool 2's inline check reports "exists and is not empty" and returns 2
prune_dir_conflict(d) == d.kind = "dir" /\ d.names # {}

\* ------------------------------------------------------- inputs and texts
\* the template files that exist beside the script
TemplateFiles == {"orca6.inp", "job.slurm"}
TemplateText(path) == <<"contents of ", path, NL>>

\* read_arg_text_or_file / read_text_or_file
read_text_or_file(value) ==
    IF value \in TemplateFiles THEN TemplateText(value) ELSE <<value>>

build_cleanup_script == <<"#!/usr/bin/env bash", NL, "rm -rf $p", NL>>

\* -i names a file that exists, -s is literal text
TemplateArgs == {[i |-> "orca6.inp", s |-> "#!/bin/bash"]}

\* line k of the model's geometry lists: k characters, so all lines differ
GeometryLine(k) == [j \in 1..k |-> "x"]
GeometryLines(len) == [k \in 1..len |-> GeometryLine(k)]

\* geometry-list files: 0..MaxLines lines, the last one with or without its
\* newline (a lone newline is a file of one empty line)
GeometryFiles ==
    {join(<<NL>>, GeometryLines(len)) \o t :
        len \in 0..MaxLines, t \in {<<>>, <<NL>>}}

LineCounts == 0..MaxLines          \* values of -n (0 is rejected)
FirstCounts == (0 - 1)..MaxLines   \* values of -first (-1 is rejected)
PruneDens == {None} \cup {Some(p) : p \in 0..MaxLines}

\* "\n".join(chunk) + "\n"
geom_content(chunk) == join(<<NL>>, chunk) \o <<NL>>

\* the job directory written without its cleanup script
write_job_no_cleanup(d, chunk, orca, slurm) ==
    LET d1 == write_file(d, "geometry.xyz", geom_content(chunk), FALSE)
        d2 == write_file(d1, "orca6.inp", orca, FALSE)
    IN write_file(d2, "job.slurm", slurm, FALSE)

\* the four artifacts written into one job directory
write_job(d, chunk, orca, slurm) ==
    LET d1 == write_file(d, "geometry.xyz", geom_content(chunk), FALSE)
        d2 == write_file(d1, "orca6.inp", orca, FALSE)
        d3 == write_file(d2, "job.slurm", slurm, FALSE)
    IN write_file(d3, "cleanup.sh", build_cleanup_script, TRUE)

\* ------------------------------------------------------------------- state
VARIABLES
    fs,          \* the output root and its numbered sub-folders
    fs0,         \* fs when the current invocation started
    tool,        \* 0 before the first invocation, then 1 or 2
    args,        \* the parsed command line
    pc,          \* "idle", "validate", "prepare", "loop", "done"
    run,         \* number of invocations started
    prev,        \* how the previous invocation ended
    lines, chunks, total, indices, orca_text, slurm_text,  \* locals of main()
    idx,         \* the loop's ordinal (enumerate(..., start=1))
    stderr,      \* messages printed to sys.stderr, in order
    exit_code,   \* the process's exit status once pc = "done"
    calls,       \* arguments the chunker and the selector were called with
    order        \* ordinals whose directory this invocation wrote, in order

vars == <<fs, fs0, tool, args, pc, run, prev, lines, chunks, total, indices,
          orca_text, slurm_text, idx, stderr, exit_code, calls, order>>

NoArgs == [geometry_exists |-> FALSE, raw |-> <<>>, n |-> 0, orca_input |-> "",
           slurm_input |-> "", force |-> FALSE, dry_run |-> FALSE,
           first |-> 0, prune |-> None]

NoPrev == [tool |-> 0, exit_code |-> 0, dry_run |-> FALSE, made |-> 0]

Msg(text, num) == [msg |-> text, num |-> num]

Init ==
    /\ fs \in PriorFS
    /\ fs0 = fs
    /\ tool = 0
    /\ args = NoArgs
    /\ pc = "idle"
    /\ run = 0
    /\ prev = NoPrev
    /\ lines = <<>> /\ chunks = <<>> /\ total = 0 /\ indices = <<>>
    /\ orca_text = <<>> /\ slurm_text = <<>>
    /\ idx = 1
    /\ stderr = <<>>
    /\ exit_code = 0
    /\ calls = {}
    /\ order = <<>>

\* a fresh process: main()'s locals and the streams start empty
Start(t, a) ==
    /\ tool' = t
    /\ args' = a
    /\ pc' = "validate"
    /\ run' = run + 1
    /\ fs0' = fs
    /\ lines' = <<>> /\ chunks' = <<>> /\ total' = 0 /\ indices' = <<>>
    /\ orca_text' = <<>> /\ slurm_text' = <<>>
    /\ idx' = 1
    /\ stderr' = <<>>
    /\ exit_code' = 0
    /\ calls' = {}
    /\ order' = <<>>
    /\ UNCHANGED fs

\* sys.exit(main()) returning code, or an uncaught exception (status 1)
Exit(code, text, num) ==
    /\ pc' = "done"
    /\ exit_code' = code
    /\ stderr' = IF text = "" THEN stderr ELSE Append(stderr, Msg(text, num))

Crash(exception) == Exit(1, exception, 0)

\* ------------------------------------------------------------ tool 1 steps
\* argparse of orca6-batch-create.py
Invoke1 ==
    /\ pc = "idle"
    /\ \E g \in BOOLEAN, raw \in GeometryFiles, n \in LineCounts,
          t \in TemplateArgs, force \in BOOLEAN, dry \in BOOLEAN :
          /\ g \/ raw = <<>>
          /\ Start(1, [geometry_exists |-> g, raw |-> raw, n |-> n,
                       orca_input |-> t.i, slurm_input |-> t.s,
                       force |-> force, dry_run |-> dry,
                       first |-> 0, prune |-> None])
    /\ prev' = prev

\* the two checks main() makes before it touches the output root
config_error_create(a) ==
    IF ~a.geometry_exists THEN "ERROR: Geometry list file not found"
    ELSE IF a.n <= 0 THEN "ERROR: --lines-per-geometry (-n) must be a positive integer."
    ELSE ""

Validate1 ==
    /\ pc = "validate" /\ tool = 1
    /\ IF config_error_create(args) # ""
       THEN Exit(2, config_error_create(args), 0)
       ELSE pc' = "prepare" /\ UNCHANGED <<exit_code, stderr>>
    /\ UNCHANGED <<fs, fs0, tool, args, run, prev, lines, chunks, total, indices,
                   orca_text, slurm_text, idx, calls, order>>

remainder_warning(total_lines, total_chunks, n) ==
    LET remainder == total_lines - total_chunks * n
    IN IF remainder # 0
       THEN <<Msg("WARNING: Ignoring last line(s)", remainder)>>
       ELSE <<>>

\* out_root.mkdir, read and chunk the list, warn, resolve the templates
Prepare1 ==
    /\ pc = "prepare" /\ tool = 1
    /\ IF fs.root = "file"
       THEN /\ Crash("Traceback: FileExistsError")
            /\ UNCHANGED <<fs, lines, chunks, total, orca_text, slurm_text, calls>>
       ELSE LET ls == splitlines(args.raw)
                n == args.n
                cs == chunk_lines_create(ls, n)
                warned == stderr \o remainder_warning(Len(ls), Len(cs), n)
            IN /\ fs' = [fs EXCEPT !.root = "dir"]
               /\ lines' = ls
               /\ calls' = calls \cup {[fn |-> "chunk_lines", n |-> n, prune |-> None]}
               /\ IF chunk_lines_create_raises(ls, n)
                  THEN /\ Crash("Traceback: ZeroDivisionError")
                       /\ UNCHANGED <<chunks, total, orca_text, slurm_text>>
                  ELSE /\ chunks' = cs
                       /\ total' = Len(cs)
                       /\ orca_text' = read_text_or_file(args.orca_input)
                       /\ slurm_text' = read_text_or_file(args.slurm_input)
                       /\ IF Len(cs) = 0
                          THEN /\ pc' = "done"
                               /\ exit_code' = 0
                               /\ stderr' = Append(warned, Msg("Nothing to do.", 0))
                          ELSE /\ pc' = "loop"
                               /\ stderr' = warned
                               /\ UNCHANGED exit_code
    /\ UNCHANGED <<fs0, tool, args, run, prev, indices, idx, order>>

\* one iteration of "for idx, chunk in enumerate(chunks, start=1)"
Materialize1 ==
    /\ pc = "loop" /\ tool = 1
    /\ idx <= Len(chunks)
    /\ IF args.dry_run
       THEN /\ idx' = idx + 1
            /\ UNCHANGED <<fs, pc, exit_code, stderr, order>>
       ELSE IF ensure_dir_raises(fs.sub[idx], args.force)
       THEN /\ Crash("Traceback: RuntimeError")
            /\ UNCHANGED <<fs, idx, order>>
       ELSE /\ fs' = [fs EXCEPT !.sub[idx] =
                         write_job(mkdir(@), chunks[idx], orca_text, slurm_text)]
            /\ order' = Append(order, idx)
            /\ idx' = idx + 1
            /\ UNCHANGED <<pc, exit_code, stderr>>
    /\ UNCHANGED <<fs0, tool, args, run, prev, lines, chunks, total, indices,
                   orca_text, slurm_text, calls>>

\* print("Done."); return 0
Finish1 ==
    /\ pc = "loop" /\ tool = 1
    /\ idx > Len(chunks)
    /\ Exit(0, "", 0)
    /\ UNCHANGED <<fs, fs0, tool, args, run, prev, lines, chunks, total, indices,
                   orca_text, slurm_text, idx, calls, order>>

\* ------------------------------------------------------------ tool 2 steps
\* argparse of orca6-batch-prune-create.py; it writes into the working
\* directory, which exists
Invoke2 ==
    /\ pc = "idle"
    /\ fs.root = "dir"
    /\ \E g \in BOOLEAN, raw \in GeometryFiles, n \in LineCounts,
          t \in TemplateArgs, first \in FirstCounts, prune \in PruneDens :
          /\ g \/ raw = <<>>
          /\ Start(2, [geometry_exists |-> g, raw |-> raw, n |-> n,
                       orca_input |-> t.i, slurm_input |-> t.s,
                       force |-> FALSE, dry_run |-> FALSE,
                       first |-> first, prune |-> prune])
    /\ prev' = prev

\* tool 2's checks without the one on -prune
config_error_prune_no_prune_check(a) ==
    IF ~a.geometry_exists THEN "ERROR: geometry list file not found"
    ELSE IF a.n <= 0 THEN "ERROR: -n must be a positive integer."
    ELSE IF a.first < 0 THEN "ERROR: -first must be >= 0."
    ELSE ""

config_error_prune(a) ==
    IF ~a.geometry_exists THEN "ERROR: geometry list file not found"
    ELSE IF a.n <= 0 THEN "ERROR: -n must be a positive integer."
    ELSE IF a.first < 0 THEN "ERROR: -first must be >= 0."
    ELSE IF a.prune # None /\ a.prune[1] <= 0
         THEN "ERROR: -prune must be a positive integer when provided."
    ELSE ""

Validate2 ==
    /\ pc = "validate" /\ tool = 2
    /\ IF config_error_prune(args) # ""
       THEN Exit(2, config_error_prune(args), 0)
       ELSE pc' = "prepare" /\ UNCHANGED <<exit_code, stderr>>
    /\ UNCHANGED <<fs, fs0, tool, args, run, prev, lines, chunks, total, indices,
                   orca_text, slurm_text, idx, calls, order>>

\* read and chunk the list, warn, select, resolve the templates
Prepare2 ==
    /\ pc = "prepare" /\ tool = 2
    /\ LET ls == splitlines(args.raw)
           n == args.n
           cs == chunk_lines_prune(ls, n)
           tot == Len(cs)
           warned == stderr \o remainder_warning(Len(ls), tot, n)
           called == calls \cup {[fn |-> "chunk_lines", n |-> n, prune |-> None]}
           selected == called \cup
               {[fn |-> "select_indices", n |-> tot, prune |-> args.prune]}
           ixs == select_indices(tot, args.first, args.prune)
       IN /\ lines' = ls
          /\ chunks' = cs
          /\ total' = tot
          /\ IF tot = 0
             THEN /\ calls' = called
                  /\ Exit(0, "Nothing to do.", 0)
                  /\ UNCHANGED <<indices, orca_text, slurm_text>>
             ELSE IF select_indices_raises(tot, args.first, args.prune)
             THEN /\ calls' = selected
                  /\ pc' = "done"
                  /\ exit_code' = 2
                  /\ stderr' = Append(warned, Msg("ERROR: -prune must be a positive integer.", 0))
                  /\ UNCHANGED <<indices, orca_text, slurm_text>>
             ELSE /\ calls' = selected
                  /\ indices' = ixs
                  /\ IF ixs = <<>>
                     THEN /\ pc' = "done"
                          /\ exit_code' = 0
                          /\ stderr' = Append(warned, Msg("Nothing to do.", 0))
                          /\ UNCHANGED <<orca_text, slurm_text>>
                     ELSE /\ pc' = "loop"
                          /\ stderr' = warned
                          /\ orca_text' = read_text_or_file(args.orca_input)
                          /\ slurm_text' = read_text_or_file(args.slurm_input)
                          /\ UNCHANGED exit_code
    /\ UNCHANGED <<fs, fs0, tool, args, run, prev, idx, order>>

\* the chunk taken by ordinal instead of by source index: chunks[ord_idx - 1]
selected_chunk_by_ordinal(cs, ixs, ord_idx) == cs[ord_idx]

\* chunks[geom_idx] for the loop's pair (ord_idx, geom_idx)
selected_chunk(cs, ixs, ord_idx) == cs[ixs[ord_idx] + 1]

\* one iteration of "for ord_idx, geom_idx in enumerate(indices, start=1)"
Materialize2 ==
    /\ pc = "loop" /\ tool = 2
    /\ idx <= Len(indices)
    /\ IF prune_dir_conflict(fs.sub[idx])
       THEN /\ Exit(2, "ERROR: directory exists and is not empty.", idx)
            /\ UNCHANGED <<fs, idx, order>>
       ELSE IF fs.sub[idx].kind = "file"
       THEN /\ Crash("Traceback: FileExistsError")
            /\ UNCHANGED <<fs, idx, order>>
       ELSE /\ fs' = [fs EXCEPT !.sub[idx] =
                         write_job(mkdir(@), selected_chunk(chunks, indices, idx),
                                   orca_text, slurm_text)]
            /\ order' = Append(order, idx)
            /\ idx' = idx + 1
            /\ UNCHANGED <<pc, exit_code, stderr>>
    /\ UNCHANGED <<fs0, tool, args, run, prev, lines, chunks, total, indices,
                   orca_text, slurm_text, calls>>

\* print("Done. Created ..."); return 0
Finish2 ==
    /\ pc = "loop" /\ tool = 2
    /\ idx > Len(indices)
    /\ Exit(0, "", 0)
    /\ UNCHANGED <<fs, fs0, tool, args, run, prev, lines, chunks, total, indices,
                   orca_text, slurm_text, idx, calls, order>>

\* ------------------------------------------------------------ a second run
\* the same tool is run again on the same geometry list and output root;
\* tool 1's --force and --dry-run may differ from the first run
Rerun ==
    /\ pc = "done"
    /\ run < MaxRuns
    /\ \E force \in BOOLEAN, dry \in BOOLEAN :
          /\ tool = 2 => ~force /\ ~dry
          /\ Start(tool, [args EXCEPT !.force = force, !.dry_run = dry])
    /\ prev' = [tool |-> tool, exit_code |-> exit_code,
                dry_run |-> args.dry_run, made |-> Len(order)]

Next ==
    \/ Invoke1 \/ Validate1 \/ Prepare1 \/ Materialize1 \/ Finish1
    \/ Invoke2 \/ Validate2 \/ Prepare2 \/ Materialize2 \/ Finish2
    \/ Rerun

Spec == Init /\ [][Next]_vars

\* ------------------------------------------- the chunker on its own inputs
LineAlphabet == {<<>>, <<"x">>}

RECURSIVE SeqsUpTo(_, _)
SeqsUpTo(S, len) ==
    IF len = 0 THEN {<<>>}
    ELSE LET shorter == SeqsUpTo(S, len - 1)
         IN shorter \cup {Append(q, x) : q \in {r \in shorter : Len(r) = len - 1}, x \in S}

ChunkInputs ==
    /\ pc = "idle" /\ run = 0
    /\ \E ls \in SeqsUpTo(LineAlphabet, MaxLen), n \in (0 - 1)..(MaxLen + 1) :
          /\ lines' = ls
          /\ args' = [args EXCEPT !.n = n, !.geometry_exists = TRUE]
    /\ run' = 1
    /\ pc' = "prepare"
    /\ UNCHANGED <<fs, fs0, tool, prev, chunks, total, indices, orca_text,
                   slurm_text, idx, stderr, exit_code, calls, order>>

\* chunk_lines of tool 1 applied to (lines, n)
ChunkCreate ==
    /\ pc = "prepare" /\ tool = 0
    /\ tool' = 1
    /\ calls' = calls \cup {[fn |-> "chunk_lines", n |-> args.n, prune |-> None]}
    /\ IF chunk_lines_create_raises(lines, args.n)
       THEN Crash("Traceback: ZeroDivisionError") /\ UNCHANGED <<chunks, total>>
       ELSE /\ chunks' = chunk_lines_create(lines, args.n)
            /\ total' = Len(chunks')
            /\ Exit(0, "", 0)
    /\ UNCHANGED <<fs, fs0, args, run, prev, lines, indices, orca_text,
                   slurm_text, idx, order>>

\* chunk_lines of tool 2 applied to (lines, n)
ChunkPrune ==
    /\ pc = "prepare" /\ tool = 0
    /\ tool' = 2
    /\ calls' = calls \cup {[fn |-> "chunk_lines", n |-> args.n, prune |-> None]}
    /\ chunks' = chunk_lines_prune(lines, args.n)
    /\ total' = Len(chunks')
    /\ Exit(0, "", 0)
    /\ UNCHANGED <<fs, fs0, args, run, prev, lines, indices, orca_text,
                   slurm_text, idx, order>>

NextChunk == ChunkInputs \/ ChunkCreate \/ ChunkPrune

SpecChunk == Init /\ [][NextChunk]_vars

RECURSIVE Concat(_)
Concat(ss) == IF ss = <<>> THEN <<>> ELSE Head(ss) \o Concat(Tail(ss))

\* C1: for positive n, chunk_lines (either tool) returns floor(len/n) chunks
\* of exactly n lines each whose concatenation is the first floor(len/n)*n
\* lines of the input (nothing when len < n).
C1_ChunkContract ==
    (pc = "done" /\ tool \in {1, 2} /\ args.n > 0) =>
        LET q == Len(lines) \div args.n
        IN /\ Len(chunks) = q
           /\ \A k \in 1..Len(chunks) : Len(chunks[k]) = args.n
           /\ Concat(chunks) = SubSeq(lines, 1, q * args.n)
           /\ (Len(lines) < args.n => chunks = <<>>)

C1_Witness ==
    /\ pc = "done" /\ tool = 2
    /\ args.n = 2 /\ Len(lines) = 3
    /\ chunks = <<SubSeq(lines, 1, 2)>>
    /\ lines[3] # lines[1]

\* ------------------------------------------ the selector on its own inputs
SelectInputs ==
    /\ pc = "idle" /\ run = 0
    /\ \E t \in 0..MaxTotal, first \in (0 - 1)..(MaxTotal + 1),
          prune \in {None} \cup {Some(p) : p \in 0..(MaxTotal + 1)} :
          /\ total' = t
          /\ args' = [args EXCEPT !.first = first, !.prune = prune,
                                  !.geometry_exists = TRUE, !.n = 1]
    /\ run' = 1
    /\ tool' = 2
    /\ pc' = "prepare"
    /\ UNCHANGED <<fs, fs0, prev, lines, chunks, indices, orca_text,
                   slurm_text, idx, stderr, exit_code, calls, order>>

\* select_indices applied to (total, first, prune)
Select ==
    /\ pc = "prepare" /\ tool = 2
    /\ calls' = calls \cup {[fn |-> "select_indices", n |-> total, prune |-> args.prune]}
    /\ IF select_indices_raises(total, args.first, args.prune)
       THEN Exit(2, "ERROR: -prune must be a positive integer.", 0)
            /\ UNCHANGED indices
       ELSE /\ indices' = select_indices(total, args.first, args.prune)
            /\ Exit(0, "", 0)
    /\ UNCHANGED <<fs, fs0, tool, args, run, prev, lines, chunks, total,
                   orca_text, slurm_text, idx, order>>

NextSelect == SelectInputs \/ Select

SpecSelect == Init /\ [][NextSelect]_vars

StrictlyIncreasing(q) == \A i \in 1..(Len(q) - 1) : q[i] < q[i + 1]

\* C2: for total >= 0, first_count >= 0 and P absent or >= 1, select_indices
\* returns, strictly increasing, exactly 0..first-1 (first = min(first_count,
\* total)) plus, when P is given, first + k*P for every k with first + k*P <
\* total; with P absent that is range(0, first), with first_count >= total it
\* is range(0, total).
C2_SelectContract ==
    (pc = "done" /\ exit_code = 0 /\ args.first >= 0
       /\ (args.prune = None \/ args.prune[1] >= 1)) =>
        LET first == Min(args.first, total)
            prefix == {i \in 0..(total - 1) : i < first}
            sample == IF args.prune = None THEN {}
                      ELSE {i \in 0..(total - 1) :
                              \E k \in 0..total : i = first + k * args.prune[1]}
        IN /\ StrictlyIncreasing(indices)
           /\ SeqToSet(indices) = prefix \cup sample
           /\ Len(indices) = Cardinality(prefix \cup sample)
           /\ (args.prune = None => indices = [k \in 1..first |-> k - 1])
           /\ (args.first >= total => indices = [k \in 1..total |-> k - 1])

C2_Witness ==
    /\ pc = "done" /\ exit_code = 0
    /\ total = 5 /\ args.first = 1 /\ args.prune = Some(2)
    /\ indices = <<0, 1, 3>>

\* ------------------------------------------------- claims about the tools
Invoked == tool \in {1, 2} /\ pc # "idle"

\* the command line passes every check of section 4.5
ConfigValid ==
    /\ args.geometry_exists
    /\ args.n > 0
    /\ tool = 2 => /\ args.first >= 0
                   /\ args.prune = None \/ args.prune[1] > 0

InputLines == splitlines(args.raw)
WholeChunks == Len(InputLines) \div args.n
SourceChunk(c) == SubSeq(InputLines, c * args.n + 1, c * args.n + args.n)

Printed(m) == m \in SeqToSet(stderr)

\* C3: a second run of tool 1 into an output root whose numbered sub-folders
\* the first run filled, without --force, ends with exit code 2 and leaves
\* the filesystem as it found it.
C3_SecondRunExits2 ==
    (/\ pc = "done" /\ tool = 1 /\ run >= 2
     /\ prev.tool = 1 /\ prev.exit_code = 0 /\ ~prev.dry_run /\ prev.made > 0
     /\ ~args.force /\ ~args.dry_run)
    => (exit_code = 2 /\ fs = fs0)

\* C4: a --dry-run of tool 1 creates no directory, the output root included,
\* and writes no file.
C4_DryRunWritesNothing ==
    (Invoked /\ tool = 1 /\ args.dry_run) => fs = fs0

\* C5: with zero complete chunks (or, in tool 2, an empty selection) a run
\* reports nothing-to-do, exits 0 and has created and written nothing.
C5_NothingToDoTouchesNothing ==
    (/\ pc = "done" /\ Invoked /\ ConfigValid /\ fs0.root # "file"
     /\ \/ WholeChunks = 0
        \/ tool = 2 /\ args.first = 0 /\ args.prune = None)
    => (/\ Printed(Msg("Nothing to do.", 0))
        /\ exit_code = 0
        /\ fs = fs0)

\* C6: every configuration error (geometry list missing, -n <= 0, in tool 2
\* -first < 0 or -prune <= 0) ends the run with exit code 2 before anything
\* is created or written, and neither the chunker nor the selector is ever
\* called with n <= 0 or P <= 0.
C6_ConfigErrorsFirst ==
    /\ (Invoked /\ ~ConfigValid) =>
          /\ fs = fs0
          /\ pc \in {"validate", "done"}
          /\ pc = "done" => exit_code = 2
    /\ \A c \in calls :
          /\ c.fn = "chunk_lines" => c.n > 0
          /\ c.fn = "select_indices" => (c.prune = None \/ c.prune[1] > 0)

C6_Witness ==
    /\ pc = "done" /\ tool = 2 /\ exit_code = 2
    /\ args.geometry_exists /\ args.n = 1 /\ args.first = 1
    /\ args.prune = Some(0)
    /\ Len(InputLines) = 2
    /\ calls = {} /\ fs = fs0

\* C7: whenever the line count is no multiple of n (len < n included) the
\* run warns how many trailing lines it ignored, len - floor(len/n)*n.
C7_RemainderWarned ==
    (/\ pc = "done" /\ Invoked /\ ConfigValid /\ fs0.root # "file"
     /\ Len(InputLines) % args.n # 0)
    => Printed(Msg("WARNING: Ignoring last line(s)",
                   Len(InputLines) - WholeChunks * args.n))

\* the ordinals a successful run materializes
Materialized == SeqToSet(order)

\* C8 as claimed: after a successful non-dry run every materialized job
\* directory holds the four artifacts and nothing else, reuse under --force
\* included.
C8_ExactlyFourAlways ==
    (pc = "done" /\ Invoked /\ exit_code = 0 /\ ~args.dry_run) =>
        \A k \in Materialized : fs.sub[k].names = Artifacts

\* C8 amended: after a successful non-dry run every materialized job
\* directory holds the four artifacts; anything else in it was there before
\* the run, in a non-empty directory that tool 1 reused under --force.
C8_FourPlusReused ==
    (pc = "done" /\ Invoked /\ exit_code = 0 /\ ~args.dry_run) =>
        /\ Materialized = 1..(IF tool = 1 THEN total ELSE Len(indices))
        /\ \A k \in Materialized :
              /\ fs.sub[k].kind = "dir"
              /\ Artifacts \subseteq fs.sub[k].names
              /\ fs.sub[k].names \ Artifacts \subseteq fs0.sub[k].names
              /\ fs.sub[k].names # Artifacts =>
                    (tool = 1 /\ args.force /\ non_empty(fs0.sub[k]))
              /\ ~(tool = 1 /\ args.force) => fs.sub[k].names = Artifacts

C8_Witness ==
    /\ pc = "done" /\ tool = 1 /\ exit_code = 0 /\ ~args.dry_run /\ args.force
    /\ fs0.sub[1] = StaleDir
    /\ fs.sub[1].names = Names
    /\ fs.sub[2].names = Artifacts

\* C9: after a successful run the directories written are exactly 1..M; in
\* tool 2 the geometry.xyz of directory k holds the n lines of source chunk
\* S[k], the k-th selected index (M = len(S)); in tool 1 it holds those of
\* chunk k-1 (M = total).
C9_OrdinalHoldsSelectedChunk ==
    (pc = "done" /\ Invoked /\ exit_code = 0 /\ ~args.dry_run) =>
        LET M == IF tool = 1 THEN WholeChunks
                 ELSE IF WholeChunks = 0 THEN 0 ELSE Len(indices)
        IN /\ order = [k \in 1..M |-> k]
           /\ \A k \in Ordinals : k > M => fs.sub[k] = fs0.sub[k]
           /\ \A k \in 1..M :
                 /\ "geometry.xyz" \in fs.sub[k].names
                 /\ splitlines(fs.sub[k].data["geometry.xyz"]) =
                       SourceChunk(IF tool = 1 THEN k - 1 ELSE indices[k])
                 /\ Len(splitlines(fs.sub[k].data["geometry.xyz"])) = args.n

C9_Witness ==
    /\ pc = "done" /\ tool = 2 /\ exit_code = 0
    /\ args.n = 1 /\ indices = <<0, 2>>
    /\ order = <<1, 2>>
    /\ splitlines(fs.sub[2].data["geometry.xyz"]) = <<GeometryLine(3)>>
    /\ fs.sub[3] = AbsentDir

\* the first ordinal of this run whose directory was there, non-empty,
\* when the run started (0 when there is none)
FirstNonEmpty ==
    LET M == IF tool = 1 THEN total ELSE Len(indices)
        B == {k \in 1..M : non_empty(fs0.sub[k])}
    IN IF B = {} THEN 0 ELSE CHOOSE k \in B : \A j \in B : k <= j

\* C10: directories are materialized in ascending ordinal order, and when
\* the directory of ordinal k is found non-empty without an override the run
\* stops there: 1..k-1 hold their four artifacts, k is as it was, and nothing
\* beyond k is created or written.
C10_AbortAtFirstConflict ==
    /\ order = [k \in 1..Len(order) |-> k]
    /\ LET k == FirstNonEmpty
       IN (/\ Invoked /\ pc \in {"loop", "done"}
           /\ ~args.dry_run /\ ~(tool = 1 /\ args.force)
           /\ k > 0
           /\ \A j \in 1..(k - 1) : fs0.sub[j].kind # "file")
          => /\ \A j \in Ordinals : j >= k => fs.sub[j] = fs0.sub[j]
             /\ Len(order) < k
             /\ pc = "done" =>
                   /\ exit_code # 0
                   /\ Len(order) = k - 1
                   /\ \A j \in 1..(k - 1) :
                         /\ fs.sub[j].names = Artifacts
                         /\ fs.sub[j].data["orca6.inp"] = orca_text
                         /\ fs.sub[j].data["job.slurm"] = slurm_text
                         /\ fs.sub[j].data["cleanup.sh"] = build_cleanup_script
                         /\ "cleanup.sh" \in fs.sub[j].exec

C10_Witness ==
    /\ pc = "done" /\ tool = 2 /\ exit_code = 2
    /\ total = 3 /\ Len(indices) = 3
    /\ fs0.sub[2] = StaleDir
    /\ order = <<1>>
    /\ fs.sub[1].names = Artifacts
    /\ fs.sub[2] = StaleDir
    /\ fs.sub[3] = AbsentDir

====
